---- MODULE Spec2Model ----
(***************************************************************************)
(* Model of scout's configuration loader (src/src/parser.rs, git.rs):      *)
(* Context::from_toml decodes a TOML document repo by repo                 *)
(* (ParsedRepo::from_toml, ParsedBranch::from_toml) and resolves every     *)
(* decoded repo into Branch cells (Rc<RefCell<Branch>>) wired by their     *)
(* `inherits` lists (Repo::from_toml).                                     *)
(***************************************************************************)
EXTENDS Integers, Sequences, FiniteSets, TLC

\* ------------------------------------------------------------------- state
VARIABLES
    doc,       \* the toml::Table handed to Context::from_toml
    pc,        \* where the call is: start, repos, create, wire, done
    idx,       \* index of the element of `repos` the loop is at
    ctx,       \* Context::from_toml's ctx
    parsed,    \* Repo::from_toml's parsed
    repo,      \* Repo::from_toml's repo
    heap,      \* the Branch cells allocated so far, by identity
    keysTodo,  \* keys the first loop has yet to visit
    valsTodo,  \* keys whose value the second loop has yet to visit
    cur,       \* the second loop's parsed_branch (its key) and child cell
    pos,       \* index of parent_name in parsed_branch.inherits
    borrowed,  \* cells whose RefCell is mutably borrowed
    result     \* what Context::from_toml returned

vars == <<doc, pc, idx, ctx, parsed, repo, heap, keysTodo, valsTodo, cur, pos,
          borrowed, result>>

\* ------------------------------------------------------------------ bounds
\* at most MaxRepos elements in the 'repo' array of an enumerated document
MaxRepos == 2
\* at most MaxBranches elements in all 'branch' arrays of a document together
MaxBranches == 2
\* at most MaxInherits elements in all 'inherits' arrays of a document together
MaxInherits == 2

\* branch names of the enumerated documents
Names == {"a", "b"}
\* the i-th repo table of an enumerated document is named RepoNameOf[i]
RepoNameOf == <<"a", "b", "c", "d">>

\* ------------------------------------------------------------- TOML values
\* toml::Value, by kind. IntV stands for any scalar that is neither a string,
\* an array nor a table (the 3 and 5 of the tests); Absent is table.get(k) = None.
Absent == [kind |-> "absent"]
IntV == [kind |-> "int"]
Str(s) == [kind |-> "str", str |-> s]
Arr(q) == [kind |-> "arr", items |-> q]
BranchTbl(n, i) == [kind |-> "tbl", name |-> n, inherits |-> i]
RepoTbl(n, b) == [kind |-> "tbl", name |-> n, branch |-> b]
DocTbl(r) == [repo |-> r]

None == [some |-> FALSE]
Some(x) == [some |-> TRUE, val |-> x]

as_str(v) == IF v.kind = "str" THEN Some(v.str) ELSE None
as_slice(v) == IF v.kind = "arr" THEN Some(v.items) ELSE None
as_table(v) == IF v.kind = "tbl" THEN Some(v) ELSE None

\* ----------------------------------------------------------------- results
\* The messages are the source's, with the source's backquote written as an
\* apostrophe (a backquote cannot stand in a string of this language).
Ok(v) == [ok |-> TRUE, val |-> v]
\* Error::TomlError($err.to_string()), the try_toml! macro's early return
TomlError(msg) == [ok |-> FALSE, err |-> [kind |-> "TomlError", msg |-> <<msg>>]]
\* Error::StructuralError(format!(...)), the throw_err! macro; the message is
\* kept as the sequence of the format string's pieces and its arguments
StructuralError(pieces) == [ok |-> FALSE, err |-> [kind |-> "StructuralError", msg |-> pieces]]
\* a panic of the thread (Option::unwrap on None, RefCell already borrowed)
Panic(what) == [ok |-> FALSE, err |-> [kind |-> "panic", msg |-> <<what>>]]

SelfInheritMsg(parent_name, repo_name) ==
    <<"branch '", parent_name, "' in repo '", repo_name,
      "' cannot inherit from itself">>
UnknownBranchMsg(parent_name, repo_name) ==
    <<"unknown branch '", parent_name, "' in repo '", repo_name, "'">>

\* ----------------------------------------------------------------- HashMap
\* std::collections::HashMap as a function on its key set
EmptyMap == <<>>
\* (mutant) an insert that keeps the value already stored under the key
HashInsertKeepFirst(m, k, v) ==
    [x \in DOMAIN m \cup {k} |-> IF x \in DOMAIN m THEN m[x] ELSE v]
\* HashMap::insert: a later insert under the same key replaces the value
HashInsert(m, k, v) ==
    [x \in DOMAIN m \cup {k} |-> IF x = k THEN v ELSE m[x]]
HashGet(m, k) == IF k \in DOMAIN m THEN Some(m[k]) ELSE None

\* ---------------------------------------------------------------- decoding
RECURSIVE PushInherits(_, _, _)
\* the loop of ParsedBranch::from_toml over the 'inherits' array
PushInherits(items, i, branch) ==
    IF i > Len(items) THEN Ok(branch)
    ELSE LET s == as_str(items[i]) IN
         IF ~s.some THEN TomlError("'inherits' values should be strings")
         ELSE PushInherits(items, i + 1,
                  [branch EXCEPT !.inherits = Append(@, s.val)])

ParsedBranch_from_toml(table) ==
    LET name == as_str(table.name) IN
    IF ~name.some THEN TomlError("table 'branch' should have a 'name' attribute")
    ELSE LET branch == [name |-> name.val, inherits |-> <<>>] IN
         IF table.inherits.kind = "absent" THEN Ok(branch)
         ELSE LET branches == as_slice(table.inherits) IN
              IF ~branches.some THEN TomlError("value 'inherits' should be an array")
              ELSE PushInherits(branches.val, 1, branch)

RECURSIVE InsertBranches(_, _, _)
\* the loop of ParsedRepo::from_toml over the 'branch' array
InsertBranches(elems, i, parsed_repo) ==
    IF i > Len(elems) THEN Ok(parsed_repo)
    ELSE LET brc_table == as_table(elems[i]) IN
         IF ~brc_table.some THEN TomlError("value 'branch' should be a table")
         ELSE LET b == ParsedBranch_from_toml(brc_table.val) IN
              IF ~b.ok THEN b
              ELSE InsertBranches(elems, i + 1,
                       [parsed_repo EXCEPT !.branches = HashInsert(@, b.val.name, b.val)])

\* (mutant) the `branch` array is looked at before the `name`
ParsedRepo_from_toml_branchFirst(table) ==
    LET branches == as_slice(table.branch) IN
    IF ~branches.some THEN TomlError("table 'repo' should have an array 'branch'")
    ELSE LET name == as_str(table.name) IN
         IF ~name.some THEN TomlError("table 'repo' should have a 'name' attribute")
         ELSE InsertBranches(branches.val, 1,
                  [name |-> name.val, branches |-> EmptyMap])

ParsedRepo_from_toml(table) ==
    LET name == as_str(table.name) IN
    IF ~name.some THEN TomlError("table 'repo' should have a 'name' attribute")
    ELSE LET branches == as_slice(table.branch) IN
         IF ~branches.some THEN TomlError("table 'repo' should have an array 'branch'")
         ELSE InsertBranches(branches.val, 1,
                  [name |-> name.val, branches |-> EmptyMap])

\* ------------------------------------------------------------ entity model
\* Branch::new: the name, no parent yet
Branch_new(name) == [name |-> name, inherits |-> <<>>]
\* Repo::new
Repo_new(name) == [name |-> name, branches |-> EmptyMap]
\* Context::new
Context_new == [repos |-> EmptyMap]

\* The Rc<RefCell<Branch>> cells live in `heap`, a sequence indexed by the
\* cell's identity; Rc::new(RefCell::new(branch)) allocates the next index.
Rc_new(h, branch) == Append(h, branch)

\* Repo::add_branch, given the identity of the freshly allocated cell
add_branch(r, id, branch) ==
    [r EXCEPT !.branches = HashInsert(@, branch.name, id)]

\* (mutant) a name the repo does not hold is looked up in the repos already
\* added to the Context
find_branch_anywhere(r, branch_name) ==
    IF branch_name \in DOMAIN r.branches THEN Some(r.branches[branch_name])
    ELSE IF \E rn \in DOMAIN ctx.repos : branch_name \in DOMAIN ctx.repos[rn].branches
    THEN Some(ctx.repos[CHOOSE rn \in DOMAIN ctx.repos :
                  branch_name \in DOMAIN ctx.repos[rn].branches].branches[branch_name])
    ELSE None
\* (mutant) a parent is found only if its cell was made before the child's,
\* as in a single pass over the declarations
find_branch_earlier(r, branch_name) ==
    IF /\ cur.some
       /\ branch_name \in DOMAIN r.branches
       /\ r.branches[branch_name] > cur.val.child
    THEN None
    ELSE HashGet(r.branches, branch_name)
\* Repo::find_branch
find_branch(r, branch_name) == HashGet(r.branches, branch_name)

\* (mutant) the parent is copied into a cell of its own
inherits_from_copy(h, child, parent) ==
    Append([h EXCEPT ![child].inherits = Append(@, Len(h) + 1)], h[parent])
\* (mutant) a parent that already inherits from the child is left out
inherits_from_acyclic(h, child, parent) ==
    IF \E q \in 1..Len(h[parent].inherits) : h[parent].inherits[q] = child
    THEN h
    ELSE [h EXCEPT ![child].inherits = Append(@, parent)]
\* (mutant) the reference is put in front
inherits_from_front(h, child, parent) ==
    [h EXCEPT ![child].inherits = <<parent>> \o @]
\* Branch::inherits_from on the cell `child`: push a clone of the Rc, that is
\* the identity of the parent's cell
inherits_from(h, child, parent) ==
    [h EXCEPT ![child].inherits = Append(@, parent)]

\* Context::add_repo
add_repo(c, r) == [c EXCEPT !.repos = HashInsert(@, r.name, r)]

\* (mutant) cells are made only for the names some declaration inherits from
KeysToCreateReferenced(p) ==
    {k \in DOMAIN p.branches :
        \E b \in DOMAIN p.branches :
            \E q \in 1..Len(p.branches[b].inherits) : p.branches[b].inherits[q] = k}
\* `for name in parsed.branches.keys()`: the names the first pass visits
KeysToCreate(p) == DOMAIN p.branches

\* (mutant) the parent is compared with the repo's name
IsSelfRepoName(parent_name, parsed_branch) == parent_name = parsed.name
\* `parent_name == &parsed_branch.name`
IsSelf(parent_name, parsed_branch) == parent_name = parsed_branch.name

\* ------------------------------------------------------ documents explored
StrNames == {Str(n) : n \in Names}
RepoName(i) == IF i <= Len(RepoNameOf) THEN RepoNameOf[i] ELSE "z"

\* The outline of a `branch` array element: not a table, or a table whose
\* `inherits` is missing, not an array, or an array of k elements. An outline
\* leaves open the table's `name` and the elements of the array.
NonTableElem == [elem |-> "int", inh |-> "absent", k |-> 0]
TableElem(inh, k) == [elem |-> "tbl", inh |-> inh, k |-> k]

\* outlines of shape-valid tables with k `inherits` elements
ValidElems(k) ==
    IF k = 0 THEN {TableElem("absent", 0), TableElem("arr", 0)}
    ELSE {TableElem("arr", k)}
\* outlines of elements of every shape
ShapeElems(k) ==
    IF k = 0 THEN ValidElems(0) \cup {NonTableElem, TableElem("int", 0)}
    ELSE ValidElems(k)

RECURSIVE BranchOutlines(_, _, _)
\* outlines of `branch` arrays of exactly nb elements holding ni `inherits`
\* elements together; `any` admits the defective outlines
BranchOutlines(any, nb, ni) ==
    IF nb = 0 THEN (IF ni = 0 THEN {<<>>} ELSE {})
    ELSE UNION {{<<e>> \o rest :
                     e \in IF any THEN ShapeElems(k) ELSE ValidElems(k),
                     rest \in BranchOutlines(any, nb - 1, ni - k)}
                : k \in 0..ni}

RECURSIVE RepoOutlines(_, _, _)
\* outlines of `repo` arrays of at most nr shape-valid tables holding at most
\* nb branch tables and ni `inherits` elements together
RepoOutlines(nr, nb, ni) ==
    IF nr = 0 THEN {<<>>}
    ELSE {<<>>} \cup
         UNION {{<<bs>> \o rest : bs \in BranchOutlines(FALSE, b, i),
                                  rest \in RepoOutlines(nr - 1, nb - b, ni - i)}
                : b \in 0..nb, i \in 0..ni}

ValidOutlines == RepoOutlines(MaxRepos, MaxBranches, MaxInherits)
ShapeOutlines ==
    UNION {BranchOutlines(TRUE, nb, ni) :
           nb \in 0..MaxBranches, ni \in 0..MaxInherits}

RECURSIVE CountTables(_)
CountTables(bs) ==
    IF bs = <<>> THEN 0
    ELSE (IF Head(bs).elem = "tbl" THEN 1 ELSE 0) + CountTables(Tail(bs))
RECURSIVE CountItems(_)
CountItems(bs) == IF bs = <<>> THEN 0 ELSE Head(bs).k + CountItems(Tail(bs))
RECURSIVE SumTables(_)
SumTables(rs) ==
    IF rs = <<>> THEN 0 ELSE CountTables(Head(rs)) + SumTables(Tail(rs))
RECURSIVE SumItems(_)
SumItems(rs) == IF rs = <<>> THEN 0 ELSE CountItems(Head(rs)) + SumItems(Tail(rs))

RECURSIVE BuildBranches(_, _, _, _, _)
\* the `branch` array of outline bs: the tables take their `name` from g
\* (after the first gi) and their `inherits` elements from f (after the
\* first fi)
BuildBranches(bs, g, gi, f, fi) ==
    IF bs = <<>> THEN <<>>
    ELSE LET e == Head(bs) IN
         IF e.elem = "int"
         THEN <<IntV>> \o BuildBranches(Tail(bs), g, gi, f, fi)
         ELSE <<BranchTbl(g[gi + 1],
                    CASE e.inh = "absent" -> Absent
                      [] e.inh = "int" -> IntV
                      [] OTHER -> Arr([i \in 1..e.k |-> f[fi + i]]))>>
              \o BuildBranches(Tail(bs), g, gi + 1, f, fi + e.k)

RECURSIVE BuildRepos(_, _, _, _, _, _)
BuildRepos(rs, first, g, gi, f, fi) ==
    IF rs = <<>> THEN <<>>
    ELSE <<RepoTbl(Str(RepoName(first)),
                   Arr(BuildBranches(Head(rs), g, gi, f, fi)))>>
         \o BuildRepos(Tail(rs), first + 1, g, gi + CountTables(Head(rs)),
                       f, fi + CountItems(Head(rs)))

\* the document is shape-valid and within the bounds
IsValidDoc(d) ==
    \E rs \in ValidOutlines :
      \E g \in [1..SumTables(rs) -> StrNames], f \in [1..SumItems(rs) -> StrNames] :
        d = DocTbl(Arr(BuildRepos(rs, 1, g, 0, f, 0)))

\* the document holds one repo table of any shape within the bounds (one
\* name is enough to tell the shapes apart), or is defective at the top
IsShapeDoc(d) ==
    \/ d \in {DocTbl(Absent), DocTbl(IntV)}
    \/ \E n \in {Absent, IntV, Str("a")} :
         \/ d \in {DocTbl(Arr(<<RepoTbl(n, Absent)>>)),
                   DocTbl(Arr(<<RepoTbl(n, IntV)>>))}
         \/ \E bs \in ShapeOutlines :
              \E g \in [1..CountTables(bs) -> {Absent, IntV, Str("a")}],
                 f \in [1..CountItems(bs) -> {IntV, Str("a")}] :
                d = DocTbl(Arr(<<RepoTbl(n, Arr(BuildBranches(bs, g, 0, f, 0)))>>))

\* shape-valid `branch` arrays of one table
OneTableSeqs ==
    {<<BranchTbl(n, i)>> : n \in StrNames,
        i \in {Absent, Arr(<<>>)} \cup {Arr(<<p>>) : p \in StrNames}}

\* one repo of each kind: fine, structurally wrong, or with one shape defect
Branch1(n, inh) == Arr(<<BranchTbl(Str(n), Arr(inh))>>)
RepoKinds(n) ==
    { RepoTbl(Str(n), Branch1("a", <<>>)),
      RepoTbl(Str(n), Branch1("a", <<Str("a")>>)),
      RepoTbl(Str(n), Branch1("a", <<Str("b")>>)),
      IntV,
      RepoTbl(Absent, Branch1("a", <<>>)),
      RepoTbl(Str(n), Absent),
      RepoTbl(Str(n), Arr(<<IntV>>)),
      RepoTbl(Str(n), Arr(<<BranchTbl(IntV, Absent)>>)),
      RepoTbl(Str(n), Arr(<<BranchTbl(Str("a"), IntV)>>)),
      RepoTbl(Str(n), Branch1("a", <<IntV>>)) }

RECURSIVE KindSeqs(_, _)
KindSeqs(first, nr) ==
    IF nr = 0 THEN {<<>>}
    ELSE {<<r>> \o rest : r \in RepoKinds(RepoName(first)),
                          rest \in KindSeqs(first + 1, nr - 1)}

\* documents mixing repos of the kinds above, in every order
MixedDocs ==
    {DocTbl(Arr(rs)) : rs \in UNION {KindSeqs(1, nr) : nr \in 0..MaxRepos}}

\* every order of the elements of a sequence
PermsOf(q) ==
    {[i \in 1..Len(q) |-> q[p[i]]] : p \in Permutations(1..Len(q))}

OneRepoDoc(n, bs) == DocTbl(Arr(<<RepoTbl(Str(n), Arr(bs))>>))
Tbl(n, inh) == BranchTbl(Str(n), Arr([i \in 1..Len(inh) |-> Str(inh[i])]))

\* B inherits A, C inherits A, D inherits [B, C]
Diamond ==
    << Tbl("a", <<>>), Tbl("b", <<"a">>), Tbl("c", <<"a">>),
       Tbl("d", <<"b", "c">>) >>
\* A inherits B, B inherits C, C inherits A
ThreeCycle == << Tbl("a", <<"b">>), Tbl("b", <<"c">>), Tbl("c", <<"a">>) >>
\* a self reference between two valid siblings
SelfBetween ==
    << Tbl("a", <<>>), Tbl("b", <<"a", "b", "c">>), Tbl("c", <<>>) >>

\* a name carried by two tables, the first one self-inheriting, in repo "a"
TwiceA ==
    << Tbl("a", <<"a">>), Tbl("b", <<>>), Tbl("a", <<"b">>) >>

\* the documents of test_ctx_from_toml and of the three-branch cases above,
\* the latter in every order of their branch tables
ScenarioDocs ==
    { OneRepoDoc("a", <<Tbl("b", <<"b">>)>>),
      OneRepoDoc("a", <<Tbl("b", <<"c">>)>>),
      OneRepoDoc("a", <<Tbl("b", <<>>), Tbl("c", <<"b">>)>>),
      OneRepoDoc("a", <<Tbl("c", <<"b">>), Tbl("b", <<>>)>>),
      DocTbl(Arr(<<IntV>>)) }
    \cup {OneRepoDoc("r", bs) : bs \in PermsOf(Diamond)}
    \cup {OneRepoDoc("r", bs) : bs \in PermsOf(ThreeCycle)}
    \cup {OneRepoDoc("r", bs) : bs \in PermsOf(SelfBetween)}
    \cup {OneRepoDoc("a", bs) : bs \in PermsOf(TwiceA)}

\* two repo tables of the same name
SameNameDocs ==
    {DocTbl(Arr(<<RepoTbl(Str("a"), Arr(b1)), RepoTbl(Str("a"), Arr(b2))>>)) :
        b1 \in OneTableSeqs, b2 \in OneTableSeqs}

\* the documents explored
IsDoc(d) ==
    \/ IsValidDoc(d)
    \/ IsShapeDoc(d)
    \/ d \in MixedDocs \cup ScenarioDocs \cup SameNameDocs

\* ------------------------------------------------------------ the program
NoParsed == [name |-> "", branches |-> EmptyMap]
NoRepo == Repo_new("")
Running == [ok |-> FALSE, err |-> [kind |-> "running", msg |-> <<>>]]

Init ==
    /\ IsDoc(doc)
    /\ pc = "start"
    /\ idx = 0
    /\ ctx = Context_new
    /\ parsed = NoParsed
    /\ repo = NoRepo
    /\ heap = <<>>
    /\ keysTodo = {}
    /\ valsTodo = {}
    /\ cur = None
    /\ pos = 0
    /\ borrowed = {}
    /\ result = Running

\* an early return of Err (or a panic): the locals, the cells and the
\* partly built Context are dropped; idx stays where the loop stopped
Fail(e) ==
    /\ result' = e
    /\ pc' = "done"
    /\ ctx' = Context_new
    /\ parsed' = NoParsed
    /\ repo' = NoRepo
    /\ heap' = <<>>
    /\ keysTodo' = {}
    /\ valsTodo' = {}
    /\ cur' = None
    /\ pos' = 0
    /\ borrowed' = {}
    /\ UNCHANGED <<doc, idx>>

\* Context::from_toml up to its loop
ContextFromToml ==
    /\ pc = "start"
    /\ LET repos == as_slice(doc.repo) IN
       IF ~repos.some
       THEN Fail(TomlError("value 'repo' should be an array"))
       ELSE /\ ctx' = Context_new
            /\ idx' = 1
            /\ pc' = "repos"
            /\ UNCHANGED <<doc, parsed, repo, heap, keysTodo, valsTodo, cur,
                           pos, borrowed, result>>

\* (mutant) every remaining repo element is decoded before the first of them
\* is resolved
NextRepoDecodeAll ==
    /\ pc = "repos"
    /\ idx <= Len(doc.repo.items)
    /\ LET Decoded(e) == IF e.kind = "tbl" THEN ParsedRepo_from_toml(e)
                         ELSE TomlError("value 'repo' should be a table")
           bad == {i \in idx..Len(doc.repo.items) : ~Decoded(doc.repo.items[i]).ok}
       IN  IF bad # {}
           THEN Fail(Decoded(doc.repo.items[CHOOSE i \in bad : \A j \in bad : i <= j]))
           ELSE LET p == Decoded(doc.repo.items[idx]) IN
                /\ parsed' = p.val
                /\ repo' = Repo_new(p.val.name)
                /\ keysTodo' = KeysToCreate(p.val)
                /\ pc' = "create"
                /\ UNCHANGED <<doc, idx, ctx, heap, valsTodo, cur, pos,
                               borrowed, result>>

\* one turn of Context::from_toml's loop, into Repo::from_toml: the repo is
\* decoded (ParsedRepo::from_toml) and the empty Repo is made
NextRepo ==
    /\ pc = "repos"
    /\ idx <= Len(doc.repo.items)
    /\ LET repo_table == as_table(doc.repo.items[idx]) IN
       IF ~repo_table.some
       THEN Fail(TomlError("value 'repo' should be a table"))
       ELSE LET p == ParsedRepo_from_toml(repo_table.val) IN
            IF ~p.ok
            THEN Fail(p)
            ELSE /\ parsed' = p.val
                 /\ repo' = Repo_new(parsed'.name)
                 /\ keysTodo' = KeysToCreate(parsed')
                 /\ pc' = "create"
                 /\ UNCHANGED <<doc, idx, ctx, heap, valsTodo, cur, pos,
                                borrowed, result>>

\* first loop of Repo::from_toml: a Branch cell for one more key, in any order
CreateNode ==
    /\ pc = "create"
    /\ \E name \in keysTodo :
         /\ heap' = Rc_new(heap, Branch_new(name))
         /\ repo' = add_branch(repo, Len(heap) + 1, Branch_new(name))
         /\ keysTodo' = keysTodo \ {name}
    /\ UNCHANGED <<doc, pc, idx, ctx, parsed, valsTodo, cur, pos, borrowed,
                   result>>

\* the first loop is over
EndCreate ==
    /\ pc = "create"
    /\ keysTodo = {}
    /\ pc' = "wire"
    /\ valsTodo' = DOMAIN parsed.branches
    /\ UNCHANGED <<doc, idx, ctx, parsed, repo, heap, keysTodo, cur, pos,
                   borrowed, result>>

\* second loop of Repo::from_toml, one more value in any order:
\* child = repo.find_branch(&parsed_branch.name).unwrap().borrow_mut()
BeginBranch ==
    /\ pc = "wire"
    /\ ~cur.some
    /\ \E k \in valsTodo :
         LET child == find_branch(repo, parsed.branches[k].name) IN
         IF ~child.some
         THEN Fail(Panic("called Option::unwrap() on a None value"))
         ELSE IF child.val \in borrowed
         THEN Fail(Panic("already borrowed"))
         ELSE /\ cur' = Some([key |-> k, child |-> child.val])
              /\ pos' = 1
              /\ borrowed' = borrowed \cup {child.val}
              /\ UNCHANGED <<doc, pc, idx, ctx, parsed, repo, heap, keysTodo,
                             valsTodo, result>>

\* one parent_name of the inner loop
WireEdge ==
    /\ pc = "wire"
    /\ cur.some
    /\ pos <= Len(parsed.branches[cur.val.key].inherits)
    /\ LET parsed_branch == parsed.branches[cur.val.key]
           parent_name == parsed_branch.inherits[pos]
       IN  IF IsSelf(parent_name, parsed_branch)
           THEN Fail(StructuralError(SelfInheritMsg(parent_name, parsed.name)))
           ELSE LET parent_branch == find_branch(repo, parent_name) IN
                IF parent_branch.some
                THEN /\ heap' = inherits_from(heap, cur.val.child,
                                              parent_branch.val)
                     /\ pos' = pos + 1
                     /\ UNCHANGED <<doc, pc, idx, ctx, parsed, repo, keysTodo,
                                    valsTodo, cur, borrowed, result>>
                ELSE Fail(StructuralError(UnknownBranchMsg(parent_name,
                                                          parsed.name)))

\* the inner loop is over: child (the RefMut) goes out of scope
EndBranch ==
    /\ pc = "wire"
    /\ cur.some
    /\ pos > Len(parsed.branches[cur.val.key].inherits)
    /\ borrowed' = borrowed \ {cur.val.child}
    /\ valsTodo' = valsTodo \ {cur.val.key}
    /\ cur' = None
    /\ pos' = 0
    /\ UNCHANGED <<doc, pc, idx, ctx, parsed, repo, heap, keysTodo, result>>

\* Repo::from_toml returns Ok(repo); ctx.add_repo(r)
EndWire ==
    /\ pc = "wire"
    /\ ~cur.some
    /\ valsTodo = {}
    /\ ctx' = add_repo(ctx, repo)
    /\ idx' = idx + 1
    /\ pc' = "repos"
    /\ parsed' = NoParsed
    /\ repo' = NoRepo
    /\ UNCHANGED <<doc, heap, keysTodo, valsTodo, cur, pos, borrowed, result>>

\* the loop over the repos is over: Ok(ctx)
Finish ==
    /\ pc = "repos"
    /\ idx > Len(doc.repo.items)
    /\ result' = Ok(ctx)
    /\ pc' = "done"
    /\ UNCHANGED <<doc, idx, ctx, parsed, repo, heap, keysTodo, valsTodo, cur,
                   pos, borrowed>>

Next ==
    \/ ContextFromToml
    \/ NextRepo
    \/ CreateNode
    \/ EndCreate
    \/ BeginBranch
    \/ WireEdge
    \/ EndBranch
    \/ EndWire
    \/ Finish

Spec == Init /\ [][Next]_vars

\* ------------------------------------------------- what a document declares
\* (read off the document itself, not through the decoder)
RepoItems(d) == IF d.repo.kind = "arr" THEN d.repo.items ELSE <<>>

ValidBranchElem(e) ==
    /\ e.kind = "tbl"
    /\ e.name.kind = "str"
    /\ \/ e.inherits.kind = "absent"
       \/ /\ e.inherits.kind = "arr"
          /\ \A i \in 1..Len(e.inherits.items) : e.inherits.items[i].kind = "str"

ValidRepoElem(e) ==
    /\ e.kind = "tbl"
    /\ e.name.kind = "str"
    /\ e.branch.kind = "arr"
    /\ \A i \in 1..Len(e.branch.items) : ValidBranchElem(e.branch.items[i])

ShapeValidDoc(d) ==
    /\ d.repo.kind = "arr"
    /\ \A i \in 1..Len(d.repo.items) : ValidRepoElem(d.repo.items[i])

\* of a shape-valid repo table t: the branch names, the last table of a name,
\* and the parent names that table lists
DeclNames(t) == {t.branch.items[i].name.str : i \in 1..Len(t.branch.items)}
LastIndex(t, n) ==
    CHOOSE i \in 1..Len(t.branch.items) :
        /\ t.branch.items[i].name.str = n
        /\ \A j \in (i + 1)..Len(t.branch.items) : t.branch.items[j].name.str # n
DeclInherits(t, n) ==
    LET inh == t.branch.items[LastIndex(t, n)].inherits IN
    IF inh.kind = "absent" THEN <<>>
    ELSE [i \in 1..Len(inh.items) |-> inh.items[i].str]

HasDuplicateBranch(t) == Cardinality(DeclNames(t)) < Len(t.branch.items)

\* the entries <<repo index, branch name, position>> of the kept declarations'
\* `inherits` lists, and the parent name an entry holds
Entries(d) ==
    UNION {UNION {{<<r, b, q>> : q \in 1..Len(DeclInherits(RepoItems(d)[r], b))}
                  : b \in DeclNames(RepoItems(d)[r])}
           : r \in 1..Len(RepoItems(d))}
ParentAt(d, e) == DeclInherits(RepoItems(d)[e[1]], e[2])[e[3]]
\* the entries that name the branch itself, and those that name no sibling
SelfEntries(d) == {e \in Entries(d) : ParentAt(d, e) = e[2]}
UnknownEntries(d) ==
    {e \in Entries(d) : ParentAt(d, e) \notin DeclNames(RepoItems(d)[e[1]])}
Violations(d) == SelfEntries(d) \cup UnknownEntries(d)

RepoNames(d) == {RepoItems(d)[i].name.str : i \in 1..Len(RepoItems(d))}
LastRepo(d, rn) ==
    RepoItems(d)[CHOOSE i \in 1..Len(RepoItems(d)) :
        /\ RepoItems(d)[i].name.str = rn
        /\ \A j \in (i + 1)..Len(RepoItems(d)) : RepoItems(d)[j].name.str # rn]

\* the graph a shape-valid document declares, by names
DeclaredGraph(d) ==
    [rn \in RepoNames(d) |->
        [bn \in DeclNames(LastRepo(d, rn)) |->
            [name |-> bn, parents |-> DeclInherits(LastRepo(d, rn), bn)]]]

\* the resolved graph of a Context, by names
GraphOf(c) ==
    [rn \in DOMAIN c.repos |->
        [bn \in DOMAIN c.repos[rn].branches |->
            LET b == heap[c.repos[rn].branches[bn]] IN
            [name |-> b.name,
             parents |-> [i \in 1..Len(b.inherits) |-> heap[b.inherits[i]].name]]]]

\* every array of the document holds values of one kind, as the arrays of a
\* TOML text do
SameKind(q) == \A i, j \in 1..Len(q) : q[i].kind = q[j].kind
Homogeneous(d) ==
    /\ SameKind(RepoItems(d))
    /\ \A i \in 1..Len(RepoItems(d)) :
         LET r == RepoItems(d)[i] IN
         (r.kind = "tbl" /\ r.branch.kind = "arr") =>
            /\ SameKind(r.branch.items)
            /\ \A j \in 1..Len(r.branch.items) :
                 LET b == r.branch.items[j] IN
                 (b.kind = "tbl" /\ b.inherits.kind = "arr") =>
                    SameKind(b.inherits.items)

IsTomlError(r) == ~r.ok /\ r.err.kind = "TomlError"
IsStructuralError(r) == ~r.ok /\ r.err.kind = "StructuralError"

\* ------------------------------------------------------------------ claims

\* C1: a shape-valid document in which a kept branch declaration lists its
\* own name in `inherits`, at any position, resolves to a StructuralError and
\* to no Context; when that entry is the document's only violation the message
\* is "branch '<branch>' in repo '<repo>' cannot inherit from itself".
C1Theorem ==
    (pc = "done" /\ ShapeValidDoc(doc) /\ SelfEntries(doc) # {}) =>
        /\ IsStructuralError(result)
        /\ ctx = Context_new
        /\ \A e \in SelfEntries(doc) :
             Violations(doc) = {e} =>
                result.err.msg =
                    <<"branch '", e[2], "' in repo '",
                      RepoItems(doc)[e[1]].name.str,
                      "' cannot inherit from itself">>

\* the self reference stands between two resolvable siblings, and is rejected
C1Witness ==
    /\ pc = "done"
    /\ ShapeValidDoc(doc)
    /\ IsStructuralError(result)
    /\ \E e \in SelfEntries(doc) :
         /\ Violations(doc) = {e}
         /\ e[3] > 1
         /\ e[3] < Len(DeclInherits(RepoItems(doc)[e[1]], e[2]))

\* C2: a shape-valid document in which a kept branch declaration of repo R
\* lists a name that no branch table of R carries resolves to a
\* StructuralError and to no Context, whatever the other repos declare; when
\* it is the only violation the message is
\* "unknown branch '<parent>' in repo '<R>'".
C2Theorem ==
    (pc = "done" /\ ShapeValidDoc(doc) /\ UnknownEntries(doc) # {}) =>
        /\ IsStructuralError(result)
        /\ ctx = Context_new
        /\ \A e \in UnknownEntries(doc) :
             Violations(doc) = {e} =>
                result.err.msg =
                    <<"unknown branch '", ParentAt(doc, e), "' in repo '",
                      RepoItems(doc)[e[1]].name.str, "'">>

\* the unknown name is a branch of a repo resolved before R
C2Witness ==
    /\ pc = "done"
    /\ ShapeValidDoc(doc)
    /\ IsStructuralError(result)
    /\ \E e \in UnknownEntries(doc) :
         /\ Violations(doc) = {e}
         /\ \E r \in 1..(e[1] - 1) :
              ParentAt(doc, e) \in DeclNames(RepoItems(doc)[r])

\* the documents that differ from d only in the order of the branch tables
\* inside its repos
PermutedDocs(d) ==
    LET n == Len(RepoItems(d))
        all == UNION {PermsOf(RepoItems(d)[i].branch.items) : i \in 1..n}
    IN  {DocTbl(Arr([i \in 1..n |->
                 RepoTbl(RepoItems(d)[i].name, Arr(c[i]))])) :
            c \in {x \in [1..n -> all] :
                     \A i \in 1..n : x[i] \in PermsOf(RepoItems(d)[i].branch.items)}}

DistinctNames(d) ==
    /\ Cardinality(RepoNames(d)) = Len(RepoItems(d))
    /\ \A i \in 1..Len(RepoItems(d)) : ~HasDuplicateBranch(RepoItems(d)[i])

\* C3: a document with distinct repo names, distinct branch names per repo,
\* no self-inheritance and no unknown parent resolves successfully, whatever
\* the order in which the two passes visit the declaration mapping, and to the
\* graph (repo names, branch names per repo, ordered parent names per branch)
\* that every reordering of its branch tables declares.
C3Theorem ==
    (pc = "done" /\ ShapeValidDoc(doc) /\ DistinctNames(doc)
        /\ Violations(doc) = {}) =>
        /\ result.ok
        /\ result.val = ctx
        /\ \A d \in PermutedDocs(doc) : GraphOf(ctx) = DeclaredGraph(d)

\* a branch inherits from a sibling declared after it, and is resolved
C3Witness ==
    /\ pc = "done"
    /\ result.ok
    /\ ShapeValidDoc(doc)
    /\ DistinctNames(doc)
    /\ \E e \in Entries(doc) :
         LET t == RepoItems(doc)[e[1]] IN
         LastIndex(t, ParentAt(doc, e)) > LastIndex(t, e[2])

\* C4: after a successful resolution the Branch of every kept declaration d
\* holds exactly one reference per element of d.inherits, the i-th being the
\* cell that the same repo's branch mapping stores under d.inherits[i]; the
\* names of a repo are stored under distinct cells.
C4Theorem ==
    (pc = "done" /\ result.ok) =>
        \A rn \in DOMAIN ctx.repos :
            LET r == ctx.repos[rn]
                t == LastRepo(doc, rn)
            IN  /\ DOMAIN r.branches = DeclNames(t)
                /\ \A b1, b2 \in DOMAIN r.branches :
                     r.branches[b1] = r.branches[b2] => b1 = b2
                /\ \A bn \in DeclNames(t) :
                     /\ heap[r.branches[bn]].name = bn
                     /\ heap[r.branches[bn]].inherits =
                            [i \in 1..Len(DeclInherits(t, bn)) |->
                                r.branches[DeclInherits(t, bn)[i]]]

\* the diamond: D references B and C in that order, B and C the one cell of A
C4Witness ==
    /\ pc = "done"
    /\ result.ok
    /\ "r" \in DOMAIN ctx.repos
    /\ DOMAIN ctx.repos["r"].branches = {"a", "b", "c", "d"}
    /\ LET m == ctx.repos["r"].branches IN
         /\ heap[m["d"]].inherits = <<m["b"], m["c"]>>
         /\ heap[m["b"]].inherits = <<m["a"]>>
         /\ heap[m["c"]].inherits = <<m["a"]>>

\* C7: when several branch tables of a repo carry the same name, resolution
\* succeeds exactly when the last table of every name has no self reference
\* and no unknown parent (the earlier tables are not checked), and the
\* resolved Repo holds under that name one Branch, wired as the last table says.
C7Theorem ==
    (pc = "done" /\ ShapeValidDoc(doc)
        /\ (\E i \in 1..Len(RepoItems(doc)) : HasDuplicateBranch(RepoItems(doc)[i]))) =>
        /\ result.ok <=> Violations(doc) = {}
        /\ result.ok =>
             \A rn \in DOMAIN ctx.repos :
                LET t == LastRepo(doc, rn) IN
                /\ DOMAIN ctx.repos[rn].branches = DeclNames(t)
                /\ \A bn \in DeclNames(t) :
                     GraphOf(ctx)[rn][bn] =
                        [name |-> bn, parents |-> DeclInherits(t, bn)]

\* an earlier table of the name inherits from itself or from an unknown
\* branch, the last one does not, and the document is resolved
C7Witness ==
    /\ pc = "done"
    /\ result.ok
    /\ \E i \in 1..Len(RepoItems(doc)) :
         LET items == RepoItems(doc)[i].branch.items IN
         \E j \in 1..Len(items) :
            /\ j < LastIndex(RepoItems(doc)[i], items[j].name.str)
            /\ items[j].inherits.kind = "arr"
            /\ \E q \in 1..Len(items[j].inherits.items) :
                 \/ items[j].inherits.items[q] = items[j].name
                 \/ items[j].inherits.items[q].str \notin DeclNames(RepoItems(doc)[i])

\* the names a kept declaration of repo table t reaches through `inherits`
RECURSIVE Reach(_, _, _)
Reach(t, from, fuel) ==
    IF fuel = 0 THEN from
    ELSE Reach(t, from \cup UNION {{DeclInherits(t, n)[q] :
                                       q \in 1..Len(DeclInherits(t, n))}
                                   : n \in from \cap DeclNames(t)},
               fuel - 1)
Ancestors(t, n) ==
    Reach(t, {DeclInherits(t, n)[q] : q \in 1..Len(DeclInherits(t, n))},
          Cardinality(DeclNames(t)))
Cyclic(t) == \E n \in DeclNames(t) : n \in Ancestors(t, n)

\* every `inherits` element of every table names another, declared sibling
OnlySiblings(t) ==
    \A j \in 1..Len(t.branch.items) :
        LET e == t.branch.items[j] IN
        e.inherits.kind = "arr" =>
            \A q \in 1..Len(e.inherits.items) :
                /\ e.inherits.items[q] # e.name
                /\ e.inherits.items[q].str \in DeclNames(t)

\* C8: a shape-valid document in which every `inherits` name is another,
\* declared sibling resolves successfully even when the inherits relation of
\* a repo is cyclic, and the resolved graph then holds every declared edge.
C8Theorem ==
    (pc = "done" /\ ShapeValidDoc(doc)
        /\ (\A i \in 1..Len(RepoItems(doc)) : OnlySiblings(RepoItems(doc)[i]))
        /\ (\E j \in 1..Len(RepoItems(doc)) : Cyclic(RepoItems(doc)[j]))) =>
        /\ result.ok
        /\ \A e \in Entries(doc) :
             LET rn == RepoItems(doc)[e[1]].name.str IN
             RepoItems(doc)[e[1]] = LastRepo(doc, rn) =>
                \E q \in 1..Len(heap[ctx.repos[rn].branches[e[2]]].inherits) :
                    heap[ctx.repos[rn].branches[e[2]]].inherits[q] =
                        ctx.repos[rn].branches[ParentAt(doc, e)]

\* a cycle of three branches is resolved and closed in the heap
C8Witness ==
    /\ pc = "done"
    /\ result.ok
    /\ \E i \in 1..Len(RepoItems(doc)) :
         /\ Cyclic(RepoItems(doc)[i])
         /\ Cardinality(DeclNames(RepoItems(doc)[i])) = 3
         /\ \A n \in DeclNames(RepoItems(doc)[i]) :
              Ancestors(RepoItems(doc)[i], n) = DeclNames(RepoItems(doc)[i])
    /\ \E x, y, z \in DOMAIN heap :
         /\ x # y /\ y # z /\ z # x
         /\ heap[x].inherits = <<y>>
         /\ heap[y].inherits = <<z>>
         /\ heap[z].inherits = <<x>>

\* the message a defective `branch` array element calls for
ElemMessage(e) ==
    IF e.kind # "tbl" THEN "value 'branch' should be a table"
    ELSE IF e.name.kind # "str"
    THEN "table 'branch' should have a 'name' attribute"
    ELSE IF e.inherits.kind # "arr"
    THEN "value 'inherits' should be an array"
    ELSE "'inherits' values should be strings"

FirstDefect(elems) ==
    CHOOSE i \in 1..Len(elems) :
        /\ ~ValidBranchElem(elems[i])
        /\ \A j \in 1..(i - 1) : ValidBranchElem(elems[j])

\* the message a defective repo table calls for
RepoMessage(t) ==
    IF t.name.kind # "str" THEN "table 'repo' should have a 'name' attribute"
    ELSE IF t.branch.kind # "arr"
    THEN "table 'repo' should have an array 'branch'"
    ELSE ElemMessage(t.branch.items[FirstDefect(t.branch.items)])

\* repo table t with what follows the first defective element of its `branch`
\* array dropped, or replaced by e
CutAfterDefect(t) ==
    [t EXCEPT !.branch.items = SubSeq(@, 1, FirstDefect(@))]
FillAfterDefect(t, e) ==
    [t EXCEPT !.branch.items =
        [i \in 1..Len(@) |-> IF i > FirstDefect(@) THEN e ELSE @[i]]]

\* C5: decoding a defective repo table returns one TomlError: the missing
\* `name`'s whenever `name` is absent or no string, else the missing
\* `branch`'s whenever `branch` is absent or no array, else that of the first
\* defective element of `branch` (no table; else name, then `inherits` no
\* array, then the first `inherits` element that is no string); what follows
\* that element has no influence on the result.
C5Theorem ==
    (pc = "done" /\ idx \in 1..Len(RepoItems(doc))
        /\ RepoItems(doc)[idx].kind = "tbl"
        /\ ~ValidRepoElem(RepoItems(doc)[idx])) =>
        LET t == RepoItems(doc)[idx] IN
        /\ result = [ok |-> FALSE,
                     err |-> [kind |-> "TomlError", msg |-> <<RepoMessage(t)>>]]
        /\ (t.name.kind = "str" /\ t.branch.kind = "arr") =>
             /\ ParsedRepo_from_toml(CutAfterDefect(t)) = result
             /\ \A e \in {IntV, BranchTbl(IntV, IntV),
                          BranchTbl(Str("a"), Absent)} :
                  ParsedRepo_from_toml(FillAfterDefect(t, e)) = result

\* only the `inherits` of the first defective table is at fault, and a
\* table defective in another way follows it
C5Witness ==
    /\ pc = "done"
    /\ Homogeneous(doc)
    /\ IsTomlError(result)
    /\ idx \in 1..Len(RepoItems(doc))
    /\ RepoItems(doc)[idx].kind = "tbl"
    /\ RepoItems(doc)[idx].name.kind = "str"
    /\ RepoItems(doc)[idx].branch.kind = "arr"
    /\ LET elems == RepoItems(doc)[idx].branch.items IN
         /\ \E i \in 1..Len(elems) : ~ValidBranchElem(elems[i])
         /\ FirstDefect(elems) < Len(elems)
         /\ ElemMessage(elems[FirstDefect(elems)]) = "'inherits' values should be strings"
         /\ ~ValidBranchElem(elems[Len(elems)])
         /\ ElemMessage(elems[Len(elems)]) =
                "table 'branch' should have a 'name' attribute"

\* the index of the first repo element that is defective, or has a violation
FirstBadRepo(d, Bad(_)) ==
    IF \E i \in 1..Len(RepoItems(d)) : Bad(RepoItems(d)[i])
    THEN CHOOSE i \in 1..Len(RepoItems(d)) :
            /\ Bad(RepoItems(d)[i])
            /\ \A j \in 1..(i - 1) : ~Bad(RepoItems(d)[j])
    ELSE Len(RepoItems(d)) + 1
ShapeDefective(e) == ~ValidRepoElem(e)
\* a shape-valid repo table one of whose kept declarations has a violation
Violating(e) ==
    /\ ValidRepoElem(e)
    /\ \E n \in DeclNames(e) :
         \E q \in 1..Len(DeclInherits(e, n)) :
            \/ DeclInherits(e, n)[q] = n
            \/ DeclInherits(e, n)[q] \notin DeclNames(e)

RepoCells == {repo.branches[n] : n \in DOMAIN repo.branches}

\* C9: inside the resolution of one repo no edge is appended to a Branch
\* before a Branch exists for every name of the declaration mapping; when the
\* node-creation pass ends every Branch has an empty `inherits`; in the
\* edge-wiring pass a step leaves the set of nodes and their names unchanged
\* and either leaves a Branch's `inherits` alone or appends one reference at
\* its end.
C9Theorem ==
    [][ /\ (\E id \in DOMAIN heap \cap DOMAIN heap' :
                heap'[id].inherits # heap[id].inherits) =>
              /\ pc = "wire"
              /\ DOMAIN repo.branches = DOMAIN parsed.branches
        /\ (pc = "create" /\ pc' = "wire") =>
              /\ DOMAIN repo'.branches = DOMAIN parsed'.branches
              /\ \A n \in DOMAIN repo'.branches :
                    heap'[repo'.branches[n]].inherits = <<>>
        /\ (pc = "wire" /\ pc' = "wire") =>
              /\ repo' = repo
              /\ DOMAIN heap' = DOMAIN heap
              /\ \A id \in DOMAIN heap :
                    /\ heap'[id].name = heap[id].name
                    /\ \/ heap'[id].inherits = heap[id].inherits
                       \/ /\ Len(heap'[id].inherits) = Len(heap[id].inherits) + 1
                          /\ SubSeq(heap'[id].inherits, 1, Len(heap[id].inherits))
                                = heap[id].inherits
                          /\ heap'[id].inherits[Len(heap'[id].inherits)] \in RepoCells
      ]_vars

\* the wiring pass has appended a second reference to a Branch while another
\* Branch of the repo is still to be wired
C9Witness ==
    /\ pc = "wire"
    /\ cur.some
    /\ Len(heap[cur.val.child].inherits) >= 2
    /\ valsTodo # {cur.val.key}

\* C10: resolution never panics, never stops before it has returned, and
\* returns Ok(Context) or a TomlError or StructuralError: in the edge-wiring pass every key of the declaration
\* mapping is the name of the declaration stored under it and a key of the
\* repo's branch mapping, so the lookup of the child never yields None; and
\* the only RefCell borrowed is the child's, for as long as the inner loop runs.
C10Theorem ==
    /\ pc = "wire" =>
         \A k \in DOMAIN parsed.branches :
            /\ parsed.branches[k].name = k
            /\ find_branch(repo, parsed.branches[k].name).some
    /\ ~result.ok => result.err.kind # "panic"
    /\ pc = "done" =>
         \/ result.ok /\ result.val = ctx
         \/ IsTomlError(result)
         \/ IsStructuralError(result)
    /\ pc # "done" => result = Running /\ ENABLED Next
    /\ borrowed = IF cur.some THEN {cur.val.child} ELSE {}

\* the child of a repo with a duplicate branch name, one of its branches named
\* like the repo, is borrowed and has been given a parent
C10Witness ==
    /\ pc = "wire"
    /\ cur.some
    /\ borrowed = {cur.val.child}
    /\ pos > 1
    /\ parsed.name \in DOMAIN parsed.branches
    /\ HasDuplicateBranch(RepoItems(doc)[idx])

====
